---------------------------- MODULE Spec2Model ----------------------------
(***************************************************************************)
(* A model of icmp.go: the target expander (readIPs, expandCIDR,           *)
(* incrementIP), the bounded scheduler and result aggregator of main, and  *)
(* the echo prober ping.                                                   *)
(*                                                                         *)
(* Text is a sequence of characters, each a string: the character itself,  *)
(* or U+XXXX for a rune that a TLA+ string cannot hold.  An IP address is  *)
(* a sequence of bytes (0..255), as net.IP is a byte slice.                *)
(***************************************************************************)
EXTENDS Integers, Sequences, FiniteSets, TLC

(***************************************************************************)
(* Bounds of the model.                                                    *)
(***************************************************************************)
\* the largest concurrency limit (-max) tried
MaxN == 2
\* the longest target list the scheduler is run on
MaxTargets == 2
\* CIDR blocks of the expander's inputs have at most this many host bits
MaxHostBits == 7
\* the longest file of mixed lines the reader is run on
MaxLines == 3

(***************************************************************************)
(* Text: strings, strconv.                                                 *)
(***************************************************************************)
ByteMod == 256
IPv4len == 4
IPv6len == 16

DigitChars == <<"0", "1", "2", "3", "4", "5", "6", "7", "8", "9">>

IsDigit(c) == \E i \in 1..10 : DigitChars[i] = c

DigitVal(c) == (CHOOSE i \in 1..10 : DigitChars[i] = c) - 1

\* strconv.Itoa / FormatInt(n, 10) of a non-negative number
RECURSIVE Itoa(_)
Itoa(n) == IF n < 10 THEN <<DigitChars[n + 1]>>
           ELSE Itoa(n \div 10) \o <<DigitChars[(n % 10) + 1]>>

\* the runes of unicode.IsSpace: in Latin-1 '\t', '\n', '\v', '\f', '\r',
\* ' ', U+0085 (NEL), U+00A0 (NBSP); beyond it those of White_Space
WhiteSpace ==
    {"\t", "\n", "U+000B", "\f", "\r", " ", "U+0085", "U+00A0",
     "U+1680", "U+2000", "U+2001", "U+2002", "U+2003", "U+2004", "U+2005",
     "U+2006", "U+2007", "U+2008", "U+2009", "U+200A", "U+2028", "U+2029",
     "U+202F", "U+205F", "U+3000"}

IsSpace(c) == c \in WhiteSpace

\* strings.TrimSpace
RECURSIVE TrimLeft(_)
TrimLeft(s) == IF s # << >> /\ IsSpace(Head(s)) THEN TrimLeft(Tail(s)) ELSE s

RECURSIVE TrimRight(_)
TrimRight(s) == IF s # << >> /\ IsSpace(s[Len(s)])
                THEN TrimRight(SubSeq(s, 1, Len(s) - 1)) ELSE s

TrimSpace(s) == TrimRight(TrimLeft(s))

\* strings.Contains(s, c) for a one-character c
ContainsChar(s, c) == \E i \in 1..Len(s) : s[i] = c

\* the 1-based index of the first c in s, 0 when there is none
IndexByte(s, c) == IF ContainsChar(s, c)
                   THEN CHOOSE i \in 1..Len(s) :
                            s[i] = c /\ \A j \in 1..(i - 1) : s[j] # c
                   ELSE 0

(***************************************************************************)
(* net: ParseCIDR, CIDRMask, IP.Mask, IPNet.Contains, IP.String, as        *)
(* expandCIDR calls them, for IPv4 and IPv6 text.                          *)
(***************************************************************************)
\* netip.parseIPv4: the scan over s, one character a step.
\* st = [fields, val, pos, digLen, err]
ParseV4Step(s, i, st) ==
    IF IsDigit(s[i])
    THEN IF st.digLen = 1 /\ st.val = 0
         THEN [st EXCEPT !.err = TRUE]
         ELSE LET v == st.val * 10 + DigitVal(s[i])
              IN  IF v > 255 THEN [st EXCEPT !.err = TRUE]
                  ELSE [st EXCEPT !.val = v, !.digLen = st.digLen + 1]
    ELSE IF s[i] = "."
    THEN IF i = 1 \/ i = Len(s) \/ s[i - 1] = "."
         THEN [st EXCEPT !.err = TRUE]
         ELSE IF st.pos = 3 THEN [st EXCEPT !.err = TRUE]
         ELSE [st EXCEPT !.fields = Append(st.fields, st.val),
                         !.pos = st.pos + 1, !.val = 0, !.digLen = 0]
    ELSE [st EXCEPT !.err = TRUE]

RECURSIVE ParseV4Scan(_, _, _)
ParseV4Scan(s, i, st) ==
    IF st.err \/ i > Len(s) THEN st
    ELSE ParseV4Scan(s, i + 1, ParseV4Step(s, i, st))

\* netip.parseIPv4, after the scan: three dots must have been read
ParseV4End(st) ==
    IF st.err \/ st.pos < 3 THEN [err |-> TRUE, ip |-> << >>]
    ELSE [err |-> FALSE, ip |-> Append(st.fields, st.val)]

\* netip.parseIPv4: [err, ip] with ip of 4 bytes
ParseV4(s) ==
    ParseV4End(ParseV4Scan(s, 1, [fields |-> << >>, val |-> 0, pos |-> 0,
                                  digLen |-> 0, err |-> FALSE]))

HexChars == <<"0", "1", "2", "3", "4", "5", "6", "7", "8", "9",
              "a", "b", "c", "d", "e", "f">>

UpperHexChars == <<"A", "B", "C", "D", "E", "F">>

IsHex(c) == (\E i \in 1..16 : HexChars[i] = c) \/ (\E i \in 1..6 : UpperHexChars[i] = c)

HexVal(c) == IF \E i \in 1..16 : HexChars[i] = c
             THEN (CHOOSE i \in 1..16 : HexChars[i] = c) - 1
             ELSE (CHOOSE i \in 1..6 : UpperHexChars[i] = c) + 9

MaxUint16 == 65535

\* netip.parseIPv6, the hex number at the head of s: off digits were read
\* and gave acc; a fifth digit or a value above MaxUint16 is an error
RECURSIVE HexScan(_, _, _)
HexScan(s, off, acc) ==
    IF off < Len(s) /\ IsHex(s[off + 1])
    THEN LET a == acc * 16 + HexVal(s[off + 1])
         IN  IF off > 3 \/ a > MaxUint16
             THEN [off |-> off, acc |-> a, err |-> TRUE]
             ELSE HexScan(s, off + 1, a)
    ELSE [off |-> off, acc |-> acc, err |-> FALSE]

V6Fail == [err |-> TRUE, ip |-> << >>, ell |-> -1, s |-> << >>]

\* netip.parseIPv6, the loop "for i < 16": ip holds the i bytes filled so
\* far, ell the position of the ellipsis (-1: none yet), s the text left
RECURSIVE V6Loop(_, _, _)

\* the end of the text is an IPv4 address: v4 is what parseIPv4 made of it
V6Embedded(ip, ell, v4) ==
    IF v4.err THEN V6Fail
    ELSE [err |-> FALSE, ip |-> ip \o v4.ip, ell |-> ell, s |-> << >>]

\* after the hex group at the head of s: rest is the text that follows it,
\* ip2 is ip with the group's two bytes
V6Next(ip, ip2, ell, s, rest) ==
    IF rest # << >> /\ rest[1] = "."
    THEN IF (ell < 0 /\ Len(ip) # 12) \/ Len(ip) + 4 > IPv6len THEN V6Fail
         ELSE V6Embedded(ip, ell, ParseV4(s))
    ELSE IF rest = << >>
    THEN [err |-> FALSE, ip |-> ip2, ell |-> ell, s |-> << >>]
    ELSE IF rest[1] # ":" \/ Len(rest) = 1 THEN V6Fail
    ELSE IF rest[2] = ":"
    THEN IF ell >= 0 THEN V6Fail
         ELSE IF Len(rest) = 2
         THEN [err |-> FALSE, ip |-> ip2, ell |-> Len(ip2), s |-> << >>]
         ELSE V6Loop(ip2, Len(ip2), SubSeq(rest, 3, Len(rest)))
    ELSE V6Loop(ip2, ell, Tail(rest))

\* h is the hex number read at the head of s
V6Group(ip, ell, s, h) ==
    IF h.err \/ h.off = 0 THEN V6Fail
    ELSE V6Next(ip, ip \o <<h.acc \div ByteMod, h.acc % ByteMod>>, ell, s,
                SubSeq(s, h.off + 1, Len(s)))

V6Loop(ip, ell, s) ==
    IF Len(ip) >= IPv6len THEN [err |-> FALSE, ip |-> ip, ell |-> ell, s |-> s]
    ELSE V6Group(ip, ell, s, HexScan(s, 0, 0))

Zeros(n) == [i \in 1..n |-> 0]

\* netip.parseIPv6, after the loop: text left over is an error, and the
\* ellipsis stands for the bytes that are missing
ParseV6End(r) ==
    IF r.err \/ r.s # << >> THEN [err |-> TRUE, ip |-> << >>]
    ELSE IF Len(r.ip) < IPv6len
    THEN IF r.ell < 0 THEN [err |-> TRUE, ip |-> << >>]
         ELSE [err |-> FALSE,
               ip |-> SubSeq(r.ip, 1, r.ell) \o Zeros(IPv6len - Len(r.ip))
                         \o SubSeq(r.ip, r.ell + 1, Len(r.ip))]
    ELSE IF r.ell >= 0 THEN [err |-> TRUE, ip |-> << >>]
    ELSE [err |-> FALSE, ip |-> r.ip]

\* whether s starts with "::"
LeadingEllipsis(s) == Len(s) >= 2 /\ s[1] = ":" /\ s[2] = ":"

\* netip.parseIPv6 of text without a zone: [err, ip] with ip of 16 bytes
ParseV6(s) ==
    IF s = <<":", ":">> THEN [err |-> FALSE, ip |-> Zeros(IPv6len)]
    ELSE ParseV6End(V6Loop(<< >>,
                           IF LeadingEllipsis(s) THEN 0 ELSE -1,
                           IF LeadingEllipsis(s) THEN SubSeq(s, 3, Len(s))
                           ELSE s))

\* the first of ".", ":" and "%" in s decides how netip.ParseAddr reads it
\* ("": none of them is in s)
FirstMark(s) ==
    LET marks == {i \in 1..Len(s) : s[i] \in {".", ":", "%"}}
    IN  IF marks = {} THEN ""
        ELSE s[CHOOSE i \in marks : \A j \in marks : i <= j]

\* the zone of an IPv6 text: what follows its first "%"
ZoneSplit(s) ==
    LET i == IndexByte(s, "%")
    IN  IF i = 0 THEN [addr |-> s, zone |-> << >>, has |-> FALSE]
        ELSE [addr |-> SubSeq(s, 1, i - 1), zone |-> SubSeq(s, i + 1, Len(s)),
              has |-> TRUE]

\* netip.parseIPv6 of text split at its "%": an empty zone is an error
ParseZoned(z) ==
    IF z.has /\ z.zone = << >> THEN [err |-> TRUE, ip |-> << >>]
    ELSE ParseV6(z.addr)

ParseAddrBy(s, mark) ==
    IF mark = "." THEN ParseV4(s)
    ELSE IF mark = ":" THEN ParseZoned(ZoneSplit(s))
    ELSE [err |-> TRUE, ip |-> << >>]

\* netip.ParseAddr: [err, ip] with ip of 4 bytes (dotted decimal) or of 16
ParseAddr(s) == ParseAddrBy(s, FirstMark(s))

\* Addr.Zone() of what ParseAddr gave
ZoneOf(s) == IF FirstMark(s) = ":" THEN ZoneSplit(s).zone ELSE << >>

\* net.dtoi: the leading decimal digits of s: [n, i, ok]
Big == 16777215

RECURSIVE DtoiScan(_, _, _)
DtoiScan(s, i, n) ==
    IF i <= Len(s) /\ IsDigit(s[i])
    THEN LET v == n * 10 + DigitVal(s[i])
         IN  IF v >= Big THEN [n |-> Big, i |-> i - 1, ok |-> FALSE]
             ELSE DtoiScan(s, i + 1, v)
    ELSE IF i = 1 THEN [n |-> 0, i |-> 0, ok |-> FALSE]
    ELSE [n |-> n, i |-> i - 1, ok |-> TRUE]

Dtoi(s) == DtoiScan(s, 1, 0)

RECURSIVE Pow2(_)
Pow2(k) == IF k = 0 THEN 1 ELSE 2 * Pow2(k - 1)

Min(a, b) == IF a < b THEN a ELSE b
Max(a, b) == IF a > b THEN a ELSE b

\* net.CIDRMask(ones, bits): bits/8 bytes, the first `ones` bits set
CIDRMask(ones, bits) ==
    [i \in 1..(bits \div 8) |->
        LET k == Max(0, Min(8, ones - 8 * (i - 1)))
        IN  ByteMod - Pow2(8 - k)]

\* a & b on bytes
RECURSIVE BitAnd(_, _)
BitAnd(a, b) == IF a = 0 \/ b = 0 THEN 0
                ELSE (a % 2) * (b % 2) + 2 * BitAnd(a \div 2, b \div 2)

\* the 16-byte form of an IPv4 address (netip.Addr.As16)
V4InV6Prefix == <<0, 0, 0, 0, 0, 0, 0, 0, 0, 0, 255, 255>>

As16(ip) == IF Len(ip) = IPv4len THEN V4InV6Prefix \o ip ELSE ip

IsV4Mapped(ip) == Len(ip) = IPv6len /\ SubSeq(ip, 1, 12) = V4InV6Prefix

\* IP.To4: the 4-byte form, << >> (nil) when ip is no IPv4 address
To4(ip) == IF Len(ip) = IPv4len THEN ip
           ELSE IF IsV4Mapped(ip) THEN SubSeq(ip, 13, 16)
           ELSE << >>

\* IP.Mask(mask): a new slice, << >> (nil) on a length mismatch
MaskIP(ip, mask) ==
    LET ip1 == IF Len(mask) = IPv4len /\ Len(ip) = IPv6len
                  /\ SubSeq(ip, 1, 12) = V4InV6Prefix
               THEN SubSeq(ip, 13, 16) ELSE ip
        m1 == IF Len(mask) = IPv6len /\ Len(ip) = IPv4len
                 /\ SubSeq(mask, 1, 12) = [i \in 1..12 |-> 255]
              THEN SubSeq(mask, 13, 16) ELSE mask
    IN  IF Len(ip1) # Len(m1) THEN << >>
        ELSE [i \in 1..Len(ip1) |-> BitAnd(ip1[i], m1[i])]

\* net.ParseCIDR: [err, ip, ipnet] with ipnet = [IP, Mask]
NoCIDR == [err |-> TRUE, ip |-> << >>, ipnet |-> [IP |-> << >>, Mask |-> << >>]]

\* the result: the address in its 16-byte form, the network masked
CIDRResult(ip, m) ==
    [err |-> FALSE, ip |-> ip, ipnet |-> [IP |-> MaskIP(ip, m), Mask |-> m]]

\* a is what ParseAddr made of the address part, zone its zone, d what
\* dtoi made of the mask part; the prefix length is at most the address's
\* BitLen (32 or 128)
ParseCIDRWith(a, zone, mask, d) ==
    IF a.err \/ zone # << >> THEN NoCIDR
    ELSE IF ~d.ok \/ d.i # Len(mask) \/ d.n < 0 \/ d.n > 8 * Len(a.ip)
    THEN NoCIDR
    ELSE CIDRResult(As16(a.ip), CIDRMask(d.n, 8 * Len(a.ip)))

ParseCIDRParts(addr, mask) ==
    ParseCIDRWith(ParseAddr(addr), ZoneOf(addr), mask, Dtoi(mask))

ParseCIDRAt(s, i) ==
    IF i = 0 THEN NoCIDR
    ELSE ParseCIDRParts(SubSeq(s, 1, i - 1), SubSeq(s, i + 1, Len(s)))

ParseCIDR(s) == ParseCIDRAt(s, IndexByte(s, "/"))

\* net.networkNumberAndMask: the network's address in its shortest form
\* and the mask cut to it; ip = << >> (nil) when the two do not fit
NetworkNumberAndMask(n) ==
    LET ip == IF To4(n.IP) # << >> THEN To4(n.IP) ELSE n.IP
    IN  IF Len(ip) \notin {IPv4len, IPv6len} THEN [ip |-> << >>, m |-> << >>]
        ELSE IF Len(n.Mask) = IPv4len
        THEN IF Len(ip) # IPv4len THEN [ip |-> << >>, m |-> << >>]
             ELSE [ip |-> ip, m |-> n.Mask]
        ELSE IF Len(n.Mask) = IPv6len
        THEN [ip |-> ip,
              m |-> IF Len(ip) = IPv4len THEN SubSeq(n.Mask, 13, 16) ELSE n.Mask]
        ELSE [ip |-> << >>, m |-> << >>]

\* whether x, an address in its shortest form, is in the network nn
SameNetwork(nn, x) ==
    /\ Len(x) = Len(nn.ip)
    /\ \A i \in 1..Len(x) : BitAnd(nn.ip[i], nn.m[i]) = BitAnd(x[i], nn.m[i])

\* IPNet.Contains(ip)
ContainsIP(n, ip) ==
    SameNetwork(NetworkNumberAndMask(n), IF To4(ip) # << >> THEN To4(ip) ELSE ip)

\* strconv-like lower-case hex of a 16-bit group, without leading zeros
RECURSIVE Hex(_)
Hex(n) == IF n < 16 THEN <<HexChars[n + 1]>>
          ELSE Hex(n \div 16) \o <<HexChars[(n % 16) + 1]>>

\* the eight 16-bit groups of a 16-byte address
Groups(ip) == [i \in 1..8 |-> ip[2 * i - 1] * ByteMod + ip[2 * i]]

\* the length of the run of zero groups that starts at group i
RECURSIVE ZeroRun(_, _)
ZeroRun(g, i) == IF i <= 8 /\ g[i] = 0 THEN 1 + ZeroRun(g, i + 1) ELSE 0

\* the start of the first longest run of two or more zero groups; 0: none
ZeroStart(g) ==
    LET starts == {i \in 1..8 : /\ ZeroRun(g, i) >= 2
                                /\ \A j \in 1..8 : ZeroRun(g, j) <= ZeroRun(g, i)}
    IN  IF starts = {} THEN 0
        ELSE CHOOSE i \in starts : \A j \in starts : i <= j

\* netip.Addr.String of an IPv6 address: the groups from i on
RECURSIVE Format6(_, _, _)
Format6(g, i, zs) ==
    IF i > 8 THEN << >>
    ELSE IF i = zs
    THEN LET ze == zs + ZeroRun(g, zs)
         IN  <<":", ":">> \o (IF ze > 8 THEN << >>
                              ELSE Hex(g[ze]) \o Format6(g, ze + 1, zs))
    ELSE (IF i > 1 THEN <<":">> ELSE << >>) \o Hex(g[i]) \o Format6(g, i + 1, zs)

\* dotted decimal of 4 bytes
Dotted(ip) ==
    Itoa(ip[1]) \o <<".">> \o Itoa(ip[2]) \o <<".">> \o Itoa(ip[3])
        \o <<".">> \o Itoa(ip[4])

\* IP.String: dotted decimal when the address has a 4-byte form, else the
\* IPv6 text
IPString(ip) ==
    IF ip = << >> THEN <<"<", "n", "i", "l", ">">>
    ELSE IF To4(ip) # << >> THEN Dotted(To4(ip))
    ELSE Format6(Groups(ip), 1, ZeroStart(Groups(ip)))

(***************************************************************************)
(* incrementIP, expandCIDR, readIPs.                                       *)
(***************************************************************************)
\* incrementIP: ip[j]++ on a uint8, from the last byte, until one does not
\* wrap to 0.
RECURSIVE IncrementFrom(_, _)
IncrementFrom(ip, j) ==
    IF j < 1 THEN ip
    ELSE LET b == (ip[j] + 1) % ByteMod
             ip1 == [ip EXCEPT ![j] = b]
         IN  IF b > 0 THEN ip1 ELSE IncrementFrom(ip1, j - 1)

incrementIP(ip) == IncrementFrom(ip, Len(ip))

\* a faulty variant: the exclusion applied from two addresses on
DropFromTwo(list) ==
    IF Len(list) >= 2 THEN SubSeq(list, 2, Len(list) - 1) ELSE list

\* what expandCIDR returns of the enumerated list (lines 161-165)
DropNetworkAndBroadcast(list) ==
    IF Len(list) > 2 THEN SubSeq(list, 2, Len(list) - 1) ELSE list

(***************************************************************************)
(* The aggregator's pure parts.                                            *)
(***************************************************************************)
Millisecond == 1000000

\* strconv.FormatInt(duration.Milliseconds(), 10) + " ms"
FormatLatency(d) == Itoa(d \div Millisecond) \o <<" ", "m", "s">>

\* a faulty variant: the comparison turned round
LessDescending(a, b) == a.duration > b.duration

\* the less function handed to sort.Slice
Less(a, b) == a.duration < b.duration

\* sort.Slice on at most 12 elements is an insertion sort: element i moves
\* left while it is less than its left neighbour.
RECURSIVE InsertLeft(_, _)
InsertLeft(s, r) ==
    IF s # << >> /\ Less(r, s[Len(s)])
    THEN Append(InsertLeft(SubSeq(s, 1, Len(s) - 1), r), s[Len(s)])
    ELSE Append(s, r)

RECURSIVE SortFrom(_, _)
SortFrom(done, rest) ==
    IF rest = << >> THEN done
    ELSE SortFrom(InsertLeft(done, Head(rest)), Tail(rest))

SortSlice(s) == SortFrom(<< >>, s)

\* the rows of the CSV file: the header, then one row a result
CsvHeader == <<"IP", "latency">>

CsvRows(rs) == <<CsvHeader>> \o [i \in 1..Len(rs) |-> <<rs[i].ip, rs[i].latency>>]

(***************************************************************************)
(* The program's state.                                                    *)
(***************************************************************************)
VARIABLES
    file,          \* the input file: [openErr, scanErr, lines]
    maxThreads,    \* the -max flag
    pcMain,        \* where main (and readIPs, expandCIDR under it) stands
    lineNo,        \* readIPs: the number of lines scanned
    line,          \* readIPs: the trimmed line at hand
    ips,           \* readIPs' list, then main's
    warned,        \* the lines reported as unparsable CIDR, in order
    loopIP,        \* expandCIDR: the loop's ip
    ipnet,         \* expandCIDR: the parsed network
    loopIPs,       \* expandCIDR: the loop's list
    expandedIPs,   \* readIPs: what expandCIDR returned last
    resultChan,    \* the buffered result channel's content
    chanCap,       \* its capacity
    closed,        \* whether it is closed
    sem,           \* the number of tokens in the semaphore channel
    semCap,        \* its capacity
    wg,            \* the WaitGroup's counter
    count,         \* the progress counter
    total,
    next,          \* the dispatch loop's index into ips
    tpc,           \* each goroutine's position
    conn,          \* each ping's transport: "none", "open", "closed"
    perr,          \* each ping's returned error ("" is nil), once returned
    pdur,          \* each ping's returned duration
    reg,           \* each goroutine's register in count++
    said,          \* what each goroutine printed about its probe
    calls,         \* instrumentation: how often ping was entered for each target
    releases,      \* instrumentation: each goroutine's receives from sem
    dones,         \* instrumentation: each goroutine's wg.Done() calls
    seen,          \* instrumentation: what each ping has met so far
    progress,      \* the progress values printed, in order
    finalLines,    \* the number of final progress lines printed
    results,       \* the aggregator's slice
    csv,           \* the output file: [exists, rows]
    report         \* the terminal message main printed ("" is none yet)

inputVars == <<file, maxThreads>>
scanVars == <<lineNo, line, warned, expandedIPs>>
expVars == <<loopIP, ipnet, loopIPs>>
setupVars == <<chanCap, semCap, total>>
taskVars == <<tpc, conn, perr, pdur, reg, said>>
progVars == <<count, progress, finalLines>>
outVars == <<results, csv, report>>
vars == <<inputVars, pcMain, ips, scanVars, expVars, setupVars, resultChan,
          closed, sem, wg, next, taskVars, calls, releases, dones, seen,
          progVars, outVars>>

Tasks == 1..Len(tpc)

NoNet == [IP |-> << >>, Mask |-> << >>]

\* what a ping has met: the calls of SetReadDeadline, the datagrams of
\* other peers it passed over, the kind of the first datagram of its
\* destination it read, and the task whose request that datagram answers
NoSeen == [deadlines |-> 0, strays |-> 0, first |-> "none", cause |-> 0]

\* the state main starts in, given the file and the flag
Start(f, n) ==
    /\ file = f
    /\ maxThreads = n
    /\ pcMain = "readIPs"
    /\ lineNo = 0
    /\ line = << >>
    /\ ips = << >>
    /\ warned = << >>
    /\ loopIP = << >>
    /\ ipnet = NoNet
    /\ loopIPs = << >>
    /\ expandedIPs = << >>
    /\ resultChan = << >>
    /\ chanCap = 0
    /\ closed = FALSE
    /\ sem = 0
    /\ semCap = 0
    /\ wg = 0
    /\ count = 0
    /\ total = 0
    /\ next = 1
    /\ tpc = << >>
    /\ conn = << >>
    /\ perr = << >>
    /\ pdur = << >>
    /\ reg = << >>
    /\ said = << >>
    /\ calls = << >>
    /\ releases = << >>
    /\ dones = << >>
    /\ seen = << >>
    /\ progress = << >>
    /\ finalLines = 0
    /\ results = << >>
    /\ csv = [exists |-> FALSE, rows |-> << >>]
    /\ report = ""

(***************************************************************************)
(* readIPs and expandCIDR, a loop iteration a step.                        *)
(***************************************************************************)
\* a faulty variant: the rejected line falls through to the literal branch
BadCidrAsLiteral(l) == <<l>>

\* what a line with "/" that ParseCIDR rejects adds to the list: the loop
\* continues (lines 132-135)
BadCidrTargets(l) == << >>

\* a faulty variant: main goes on whatever readIPs returned
MainReturnsOnNothing(err) == FALSE

\* main's "if err != nil" on what readIPs returned (lines 39-42)
MainReturnsOn(err) == err

\* os.Open in readIPs, and main's "if err != nil" on its failure
OpenFile ==
    /\ pcMain = "readIPs"
    /\ IF MainReturnsOn(file.openErr)
       THEN /\ pcMain' = "exit"
            /\ report' = "SourceUnreadable"
       ELSE /\ pcMain' = "scan"
            /\ UNCHANGED report
    /\ UNCHANGED <<inputVars, ips, scanVars, expVars, setupVars, resultChan,
                   closed, sem, wg, next, taskVars, progVars, results, csv,
                   calls, releases, dones, seen>>

\* scanner.Scan() gives a line: trim it; a line with "/" goes to expandCIDR,
\* whose ParseCIDR either fails (report it, continue) or starts the loop;
\* any other line is appended as it is.
ScanLine ==
    /\ pcMain = "scan"
    /\ lineNo < Len(file.lines)
    /\ LET l == TrimSpace(file.lines[lineNo + 1])
           p == ParseCIDR(l)
       IN  /\ lineNo' = lineNo + 1
           /\ line' = l
           /\ IF ContainsChar(l, "/")
              THEN IF p.err
                   THEN /\ warned' = Append(warned, l)
                        /\ ips' = ips \o BadCidrTargets(l)
                        /\ UNCHANGED <<pcMain, expVars>>
                   ELSE /\ pcMain' = "expand"
                        /\ loopIP' = MaskIP(p.ip, p.ipnet.Mask)
                        /\ ipnet' = p.ipnet
                        /\ loopIPs' = << >>
                        /\ UNCHANGED <<ips, warned>>
              ELSE /\ ips' = Append(ips, l)
                   /\ UNCHANGED <<pcMain, warned, expVars>>
    /\ UNCHANGED <<inputVars, expandedIPs, setupVars, resultChan, closed, sem,
                   wg, next, taskVars, progVars, outVars,
                   calls, releases, dones, seen>>

\* one iteration of expandCIDR's loop: append ip.String(), incrementIP(ip)
ExpandStep ==
    /\ pcMain = "expand"
    /\ ContainsIP(ipnet, loopIP)
    /\ loopIPs' = Append(loopIPs, IPString(loopIP))
    /\ loopIP' = incrementIP(loopIP)
    /\ UNCHANGED <<inputVars, pcMain, ips, scanVars, ipnet, setupVars,
                   resultChan, closed, sem, wg, next, taskVars, progVars,
                   outVars,
                   calls, releases, dones, seen>>

\* the loop ends; expandCIDR returns and readIPs appends what it returned
ExpandReturn ==
    /\ pcMain = "expand"
    /\ ~ContainsIP(ipnet, loopIP)
    /\ expandedIPs' = DropNetworkAndBroadcast(loopIPs)
    /\ ips' = ips \o DropNetworkAndBroadcast(loopIPs)
    /\ pcMain' = "scan"
    /\ UNCHANGED <<inputVars, lineNo, line, warned, expVars, setupVars,
                   resultChan, closed, sem, wg, next, taskVars, progVars,
                   outVars,
                   calls, releases, dones, seen>>

\* scanner.Scan() returns false: scanner.Err() decides what readIPs returns,
\* and main either reports the error and returns or goes on
ScanEnd ==
    /\ pcMain = "scan"
    /\ lineNo = Len(file.lines)
    /\ IF MainReturnsOn(file.scanErr)
       THEN /\ pcMain' = "exit"
            /\ report' = "SourceUnreadable"
            /\ ips' = << >>
       ELSE /\ pcMain' = "make"
            /\ UNCHANGED <<report, ips>>
    /\ UNCHANGED <<inputVars, scanVars, expVars, setupVars, resultChan, closed,
                   sem, wg, next, taskVars, progVars, results, csv,
                   calls, releases, dones, seen>>

NextRead == OpenFile \/ ScanLine \/ ExpandStep \/ ExpandReturn \/ ScanEnd

(***************************************************************************)
(* main: the scheduler.                                                    *)
(***************************************************************************)
\* a faulty variant: one slot too many
SemCapOffByOne(n) == n + 1

\* the capacity of sem: make(chan struct{}, *maxThreads)
SemCap(n) == n

\* a faulty variant: the result channel made without a buffer
ResultCapUnbuffered(list) == 0

\* the capacity of resultChan: make(chan result, len(ips))
ResultCap(list) == Len(list)

\* a faulty variant: one task too few is waited for
WgCountShort(list) == Len(list) - 1

\* wg.Add(len(ips))
WgCount(list) == Len(list)

\* lines 44-51
MainMake ==
    /\ pcMain = "make"
    /\ chanCap' = ResultCap(ips)
    /\ semCap' = SemCap(maxThreads)
    /\ wg' = WgCount(ips)
    /\ count' = 0
    /\ total' = Len(ips)
    /\ next' = 1
    /\ tpc' = [t \in 1..Len(ips) |-> "idle"]
    /\ conn' = [t \in 1..Len(ips) |-> "none"]
    /\ perr' = [t \in 1..Len(ips) |-> ""]
    /\ pdur' = [t \in 1..Len(ips) |-> 0]
    /\ reg' = [t \in 1..Len(ips) |-> 0]
    /\ said' = [t \in 1..Len(ips) |-> ""]
    /\ calls' = [t \in 1..Len(ips) |-> 0]
    /\ releases' = [t \in 1..Len(ips) |-> 0]
    /\ dones' = [t \in 1..Len(ips) |-> 0]
    /\ seen' = [t \in 1..Len(ips) |-> NoSeen]
    /\ pcMain' = "loop"
    /\ UNCHANGED <<inputVars, ips, scanVars, expVars, resultChan, closed, sem,
                   progress, finalLines, outVars>>

\* sem <- struct{}{}: blocks while the channel is full
MainAcquire ==
    /\ pcMain = "loop"
    /\ next <= Len(ips)
    /\ sem < semCap
    /\ sem' = sem + 1
    /\ pcMain' = "go"
    /\ UNCHANGED <<inputVars, ips, scanVars, expVars, setupVars, resultChan,
                   closed, wg, next, taskVars, progVars, outVars,
                   calls, releases, dones, seen>>

\* go func(ip string) {...}(ip), and the loop's step
MainGo ==
    /\ pcMain = "go"
    /\ tpc' = [tpc EXCEPT ![next] = "ping"]
    /\ next' = next + 1
    /\ pcMain' = "loop"
    /\ UNCHANGED <<inputVars, ips, scanVars, expVars, setupVars, resultChan,
                   closed, sem, wg, conn, perr, pdur, reg, said, progVars,
                   outVars,
                   calls, releases, dones, seen>>

\* the loop is over; wg.Wait() returns when the counter is 0
MainWait ==
    /\ pcMain = "loop"
    /\ next > Len(ips)
    /\ wg = 0
    /\ pcMain' = "close"
    /\ UNCHANGED <<inputVars, ips, scanVars, expVars, setupVars, resultChan,
                   closed, sem, wg, next, taskVars, progVars, outVars,
                   calls, releases, dones, seen>>

\* close(resultChan)
MainClose ==
    /\ pcMain = "close"
    /\ closed' = TRUE
    /\ pcMain' = "check"
    /\ UNCHANGED <<inputVars, ips, scanVars, expVars, setupVars, resultChan,
                   sem, wg, next, taskVars, progVars, outVars,
                   calls, releases, dones, seen>>

(***************************************************************************)
(* The goroutine of a target, and ping under it.  When main has returned   *)
(* the process is over and no goroutine runs.                              *)
(***************************************************************************)
Running == pcMain # "exit"

\* a faulty variant: the release and wg.Done() not deferred, so that the
\* early return of a failed probe passes them by
AfterReturnNoDefer(failed) == IF failed THEN "load" ELSE "release"

\* where a goroutine goes when its body returns: the deferred function runs
\* on both returns (failed: the return of line 70)
AfterReturn(failed) == "release"

\* a faulty variant: the early return on an error is missing
SendsResultAlways(err) == TRUE

\* whether the goroutine sends a result for what ping returned (line 68)
SendsResult(err) == err = ""

\* the durations a successful ping may measure, in nanoseconds
Durations == {900000, 1900000}

\* the datagrams of other peers a ping is followed through
MaxStray == 2

\* a host that is no target
ForeignPeer == <<"1", "0", ".", "0", ".", "0", ".", "7", "7">>

\* a datagram is an echo reply, an ICMP message of another type, or bytes
\* that ParseMessage rejects
Kinds == {"reply", "other", "garbage"}

\* the pings whose request is out and whose outcome is not yet dealt with
RequestOut == {u \in Tasks : seen[u].deadlines > 0}

\* The datagrams ReadFrom may give.  A raw ICMP transport is handed every
\* ICMP datagram the machine receives: what a host sends in answer to the
\* request of any ping reaches every open transport, and so does what
\* another host sends unasked.  "for" is the task whose request a datagram
\* answers (0: none); every request carries the same ID and Seq (lines
\* 203-204), so that the datagram itself does not tell.
Datagrams ==
    {[peer |-> ForeignPeer, kind |-> k, for |-> 0] : k \in Kinds}
        \cup {[peer |-> ips[u], kind |-> k, for |-> u] :
                 u \in RequestOut, k \in Kinds}

\* a faulty variant: the sender is not looked at
FromDstAny(peer, dst) == TRUE

\* peer.String() == dst.String() (line 234)
FromDst(peer, dst) == peer = dst

\* a faulty variant: a message of another type is passed over and the loop
\* goes on
DecidesUnlessOther(kind) == kind # "other"

\* whether a datagram of the destination ends the ping: each branch of
\* lines 236-246 returns
Decides(kind) == TRUE

\* what ping returns on a datagram of the destination: the error of
\* ParseMessage, nil on an echo reply, the error of the default branch
Verdict(kind) == IF kind = "garbage" THEN "parse"
                 ELSE IF kind = "reply" THEN ""
                 ELSE "type"

\* a faulty variant: conn.Close() not deferred but called before the last
\* return only
ConnAfterNoDefer(e) == IF e = "" THEN "closed" ELSE "open"

\* the transport when ping returns with e after line 196: the deferred
\* conn.Close() has run
ConnAfter(e) == "closed"

\* icmp.ListenPacket, on the network the address's form selects: the
\* transport opens, or ping returns its error
PingListen(t) ==
    /\ Running
    /\ tpc[t] = "ping"
    /\ \/ /\ conn' = [conn EXCEPT ![t] = "open"]
          /\ tpc' = [tpc EXCEPT ![t] = "opened"]
          /\ UNCHANGED perr
       \/ /\ perr' = [perr EXCEPT ![t] = "listen"]
          /\ tpc' = [tpc EXCEPT ![t] = "ret"]
          /\ UNCHANGED conn
    /\ calls' = [calls EXCEPT ![t] = calls[t] + 1]
    /\ UNCHANGED <<inputVars, pcMain, ips, scanVars, expVars, setupVars,
                   resultChan, closed, sem, wg, next, pdur, reg, said,
                   progVars, outVars,
                   releases, dones, seen>>

\* Marshal, ResolveIPAddr, WriteTo: each failure returns (the deferred
\* conn.Close() runs); then the request is out and SetReadDeadline is called
PingSend(t) ==
    /\ Running
    /\ tpc[t] = "opened"
    /\ \/ /\ tpc' = [tpc EXCEPT ![t] = "recv"]
          /\ seen' = [seen EXCEPT ![t].deadlines = @ + 1]
          /\ UNCHANGED <<conn, perr>>
       \/ \E e \in {"marshal", "resolve", "send"} :
             /\ perr' = [perr EXCEPT ![t] = e]
             /\ conn' = [conn EXCEPT ![t] = ConnAfter(e)]
             /\ tpc' = [tpc EXCEPT ![t] = "ret"]
             /\ UNCHANGED seen
    /\ UNCHANGED <<inputVars, pcMain, ips, scanVars, expVars, setupVars,
                   resultChan, closed, sem, wg, next, pdur, reg, said,
                   progVars, outVars,
                   calls, releases, dones>>

\* one iteration of the receive loop.  ReadFrom fails (the deadline has
\* passed) and ping returns; or it gives a datagram: one of another peer is
\* passed over, one of the destination is parsed and ends the ping with
\* what it is.  seen records what the datagram truly was (own: it came
\* from the ping's destination), whatever the code makes of it.
PingRecv(t) ==
    /\ Running
    /\ tpc[t] = "recv"
    /\ \/ /\ perr' = [perr EXCEPT ![t] = "recv"]
          /\ conn' = [conn EXCEPT ![t] = ConnAfter("recv")]
          /\ tpc' = [tpc EXCEPT ![t] = "ret"]
          /\ UNCHANGED <<pdur, seen>>
       \/ \E d \in Datagrams :
             LET own == d.peer = ips[t]
                 ends == FromDst(d.peer, ips[t]) /\ Decides(d.kind)
             IN  /\ ~own => seen[t].strays < MaxStray
                 /\ seen' = [seen EXCEPT
                               ![t].strays = IF own THEN @ ELSE @ + 1,
                               ![t].first = IF own /\ @ = "none"
                                            THEN d.kind ELSE @,
                               ![t].cause = IF ends THEN d.for ELSE @]
                 /\ IF ends
                    THEN /\ perr' = [perr EXCEPT ![t] = Verdict(d.kind)]
                         /\ conn' = [conn EXCEPT
                                        ![t] = ConnAfter(Verdict(d.kind))]
                         /\ tpc' = [tpc EXCEPT ![t] = "ret"]
                         /\ IF Verdict(d.kind) = ""
                            THEN \E dur \in Durations :
                                    pdur' = [pdur EXCEPT ![t] = dur]
                            ELSE UNCHANGED pdur
                    ELSE UNCHANGED <<tpc, conn, perr, pdur>>
    /\ UNCHANGED <<inputVars, pcMain, ips, scanVars, expVars, setupVars,
                   resultChan, closed, sem, wg, next, reg, said, progVars,
                   outVars,
                   calls, releases, dones>>

\* lines 67-74: print what ping returned; a success is sent to resultChan
\* (the send blocks while the buffer is full).  err goes out of scope here,
\* and so does what the ping met.
TaskResult(t) ==
    /\ Running
    /\ tpc[t] = "ret"
    /\ said' = [said EXCEPT ![t] = IF perr[t] # "" THEN "failed" ELSE "ok"]
    /\ perr' = [perr EXCEPT ![t] = ""]
    /\ seen' = [seen EXCEPT ![t] = NoSeen]
    /\ IF SendsResult(perr[t])
       THEN /\ Len(resultChan) < chanCap
            /\ ~closed
            /\ resultChan' = Append(resultChan,
                                 [ip |-> ips[t], latency |-> FormatLatency(pdur[t]),
                                  duration |-> pdur[t]])
       ELSE UNCHANGED resultChan
    /\ tpc' = [tpc EXCEPT ![t] = AfterReturn(perr[t] # "")]
    /\ UNCHANGED <<inputVars, pcMain, ips, scanVars, expVars, setupVars,
                   closed, sem, wg, next, conn, pdur, reg, progVars, outVars,
                   calls, releases, dones>>

\* the deferred function: <-sem
TaskRelease(t) ==
    /\ Running
    /\ tpc[t] = "release"
    /\ sem > 0
    /\ sem' = sem - 1
    /\ tpc' = [tpc EXCEPT ![t] = "done"]
    /\ releases' = [releases EXCEPT ![t] = releases[t] + 1]
    /\ UNCHANGED <<inputVars, pcMain, ips, scanVars, expVars, setupVars,
                   resultChan, closed, wg, next, conn, perr, pdur, reg, said,
                   progVars, outVars,
                   calls, dones, seen>>

\* wg.Done()
TaskDone(t) ==
    /\ Running
    /\ tpc[t] = "done"
    /\ wg' = wg - 1
    /\ tpc' = [tpc EXCEPT ![t] = "load"]
    /\ dones' = [dones EXCEPT ![t] = dones[t] + 1]
    /\ UNCHANGED <<inputVars, pcMain, ips, scanVars, expVars, setupVars,
                   resultChan, closed, sem, next, conn, perr, pdur, reg, said,
                   progVars, outVars,
                   calls, releases, seen>>

\* count++ is a load and a store of the shared variable, unsynchronised
CountLoad(t) ==
    /\ Running
    /\ tpc[t] = "load"
    /\ reg' = [reg EXCEPT ![t] = count]
    /\ tpc' = [tpc EXCEPT ![t] = "store"]
    /\ UNCHANGED <<inputVars, pcMain, ips, scanVars, expVars, setupVars,
                   resultChan, closed, sem, wg, next, conn, perr, pdur, said,
                   progVars, outVars,
                   calls, releases, dones, seen>>

CountStore(t) ==
    /\ Running
    /\ tpc[t] = "store"
    /\ count' = reg[t] + 1
    /\ reg' = [reg EXCEPT ![t] = 0]
    /\ tpc' = [tpc EXCEPT ![t] = "args61"]
    /\ UNCHANGED <<inputVars, pcMain, ips, scanVars, expVars, setupVars,
                   resultChan, closed, sem, wg, next, conn, perr, pdur, said,
                   progress, finalLines, outVars,
                   calls, releases, dones, seen>>

\* Lines 60-63 read the shared count again, unsynchronised, each time they
\* use it, and print twice; each read and each Printf is a step of its own,
\* so that other goroutines' stores and prints, and main's return, fall
\* between them.  Line 60's read feeds only the percentage, which progress
\* does not record.
\* line 61: the arguments of Printf are evaluated, count among them
ProgressArgs(t) ==
    /\ Running
    /\ tpc[t] = "args61"
    /\ reg' = [reg EXCEPT ![t] = count]
    /\ tpc' = [tpc EXCEPT ![t] = "print61"]
    /\ UNCHANGED <<inputVars, pcMain, ips, scanVars, expVars, setupVars,
                   resultChan, closed, sem, wg, next, conn, perr, pdur, said,
                   progVars, outVars,
                   calls, releases, dones, seen>>

\* line 61: Printf writes the progress line with the value it was handed
ProgressPrint(t) ==
    /\ Running
    /\ tpc[t] = "print61"
    /\ progress' = Append(progress, reg[t])
    /\ reg' = [reg EXCEPT ![t] = 0]
    /\ tpc' = [tpc EXCEPT ![t] = "line62"]
    /\ UNCHANGED <<inputVars, pcMain, ips, scanVars, expVars, setupVars,
                   resultChan, closed, sem, wg, next, conn, perr, pdur,
                   said, count, finalLines, outVars,
                   calls, releases, dones, seen>>

\* line 62: if count == total, on the value count has now
ProgressTest(t) ==
    /\ Running
    /\ tpc[t] = "line62"
    /\ tpc' = [tpc EXCEPT ![t] = IF count = total THEN "print63" ELSE "end"]
    /\ UNCHANGED <<inputVars, pcMain, ips, scanVars, expVars, setupVars,
                   resultChan, closed, sem, wg, next, conn, perr, pdur, reg,
                   said, progVars, outVars,
                   calls, releases, dones, seen>>

\* line 63: the final progress line
ProgressFinal(t) ==
    /\ Running
    /\ tpc[t] = "print63"
    /\ finalLines' = finalLines + 1
    /\ tpc' = [tpc EXCEPT ![t] = "end"]
    /\ UNCHANGED <<inputVars, pcMain, ips, scanVars, expVars, setupVars,
                   resultChan, closed, sem, wg, next, conn, perr, pdur, reg,
                   said, count, progress, outVars,
                   calls, releases, dones, seen>>

(***************************************************************************)
(* main: the aggregator and the report.                                    *)
(***************************************************************************)
\* a faulty variant: the empty check never triggers
IsEmptyResultNever(ch) == FALSE

\* len(resultChan) == 0
IsEmptyResult(ch) == Len(ch) = 0

\* lines 81-85
MainCheck ==
    /\ pcMain = "check"
    /\ IF IsEmptyResult(resultChan)
       THEN /\ report' = "NoValidIP"
            /\ pcMain' = "exit"
       ELSE /\ pcMain' = "range"
            /\ UNCHANGED report
    /\ UNCHANGED <<inputVars, ips, scanVars, expVars, setupVars, resultChan,
                   closed, sem, wg, next, taskVars, progVars, results, csv,
                   calls, releases, dones, seen>>

\* for res := range resultChan: one receive
MainRange ==
    /\ pcMain = "range"
    /\ resultChan # << >>
    /\ results' = Append(results, Head(resultChan))
    /\ resultChan' = Tail(resultChan)
    /\ UNCHANGED <<inputVars, pcMain, ips, scanVars, expVars, setupVars,
                   closed, sem, wg, next, taskVars, progVars, csv, report,
                   calls, releases, dones, seen>>

\* the range ends on the closed, drained channel; sort.Slice
MainSort ==
    /\ pcMain = "range"
    /\ resultChan = << >>
    /\ closed
    /\ results' = SortSlice(results)
    /\ pcMain' = "create"
    /\ UNCHANGED <<inputVars, ips, scanVars, expVars, setupVars, resultChan,
                   closed, sem, wg, next, taskVars, progVars, csv, report,
                   calls, releases, dones, seen>>

\* os.Create(*outFile)
MainCreate ==
    /\ pcMain = "create"
    /\ \/ /\ csv' = [exists |-> TRUE, rows |-> << >>]
          /\ pcMain' = "write"
          /\ UNCHANGED report
       \/ /\ report' = "CreateFailed"
          /\ pcMain' = "exit"
          /\ UNCHANGED csv
    /\ UNCHANGED <<inputVars, ips, scanVars, expVars, setupVars, resultChan,
                   closed, sem, wg, next, taskVars, progVars, results,
                   calls, releases, dones, seen>>

\* lines 103-115: the header and the rows go through the buffered writer;
\* Flush, then writer.Error(): on an error some prefix of the rows is in
\* the file
MainWrite ==
    /\ pcMain = "write"
    /\ \/ /\ csv' = [csv EXCEPT !.rows = CsvRows(results)]
          /\ report' = "Written"
       \/ \E k \in 0..Len(results) :
             /\ csv' = [csv EXCEPT !.rows = SubSeq(CsvRows(results), 1, k)]
             /\ report' = "WriteFailed"
    /\ pcMain' = "exit"
    /\ UNCHANGED <<inputVars, ips, scanVars, expVars, setupVars, resultChan,
                   closed, sem, wg, next, taskVars, progVars, results,
                   calls, releases, dones, seen>>

NextMain == MainMake \/ MainAcquire \/ MainGo \/ MainWait \/ MainClose
            \/ MainCheck \/ MainRange \/ MainSort \/ MainCreate \/ MainWrite

NextTask == \E t \in Tasks :
               \/ PingListen(t) \/ PingSend(t) \/ PingRecv(t) \/ TaskResult(t)
               \/ TaskRelease(t) \/ TaskDone(t) \/ CountLoad(t)
               \/ CountStore(t) \/ ProgressArgs(t) \/ ProgressPrint(t)
               \/ ProgressTest(t) \/ ProgressFinal(t)

Next == NextRead \/ NextMain \/ NextTask

(***************************************************************************)
(* Inputs.                                                                 *)
(***************************************************************************)
CidrText(ip, bits) == IPString(ip) \o <<"/">> \o Itoa(bits)

TextFile(ls) == [openErr |-> FALSE, scanErr |-> FALSE, lines |-> ls]

\* a file os.Open fails on, and a file the scanner fails on after its lines
Unreadable == [openErr |-> TRUE, scanErr |-> FALSE, lines |-> << >>]

Broken(ls) == [openErr |-> FALSE, scanErr |-> TRUE, lines |-> ls]

AddrA == <<10, 0, 0, 1>>
AddrB == <<10, 0, 0, 9>>

\* "10.0.0.0/abc"
BadCidr == IPString(<<10, 0, 0, 0>>) \o <<"/", "a", "b", "c">>

\* the scheduler's input files, each with the number of its targets
MainFilePool ==
    { [f |-> Unreadable, n |-> 0],
      [f |-> Broken(<<IPString(AddrA)>>), n |-> 0],
      [f |-> TextFile(<< >>), n |-> 0],
      [f |-> TextFile(<<BadCidr>>), n |-> 0],
      [f |-> TextFile(<<IPString(AddrA)>>), n |-> 1],
      [f |-> TextFile(<<IPString(AddrA), BadCidr, IPString(AddrA)>>), n |-> 2],
      [f |-> TextFile(<<CidrText(AddrB, 30)>>), n |-> 2],
      [f |-> TextFile(<<CidrText(AddrB, 30), IPString(AddrB)>>), n |-> 3],
      [f |-> TextFile(<<CidrText(AddrA, 31), CidrText(AddrB, 30)>>), n |-> 4],
      [f |-> TextFile(<<IPString(AddrA), CidrText(AddrA, 30), CidrText(AddrB, 31)>>),
       n |-> 5] }

MainFiles == {e.f : e \in {e \in MainFilePool : e.n <= MaxTargets}}

Init == \E f \in MainFiles, n \in 1..MaxN : Start(f, n)

Spec == Init /\ [][Next]_vars

\* a step of the goroutine of target t
TaskStep(t) ==
    /\ t \in Tasks
    /\ \/ PingListen(t) \/ PingSend(t) \/ PingRecv(t) \/ TaskResult(t)
       \/ TaskRelease(t) \/ TaskDone(t) \/ CountLoad(t)
       \/ CountStore(t) \/ ProgressArgs(t) \/ ProgressPrint(t)
               \/ ProgressTest(t) \/ ProgressFinal(t)

\* The Go scheduler lets main, once it has the target list, and every
\* goroutine that can run take a step in the end; a receive ends at its
\* deadline at the latest, so that a ping in its receive loop does not read
\* datagrams of other peers for ever.
Fairness ==
    /\ WF_vars(NextMain)
    /\ \A t \in 1..MaxTargets : WF_vars(TaskStep(t))

SpecFair == Spec /\ Fairness

(***************************************************************************)
(* The target expander on its own: readIPs over files of larger blocks     *)
(* and of mixed lines.                                                     *)
(***************************************************************************)
\* The block of base b and prefix length bits, for at most 16 host bits: its
\* addresses share b's first two bytes, and the last two, read as one
\* number, run from the first address's to the last one's.
Low(ip) == ip[3] * 256 + ip[4]

WithLow(ip, n) == <<ip[1], ip[2], n \div 256, n % 256>>

BlockSize(bits) == Pow2(32 - bits)

BlockFirst(b, bits) == Low(b) - (Low(b) % BlockSize(bits))

\* all its addresses in increasing order, and those without the first and
\* the last one
BlockAll(b, bits) ==
    [k \in 1..BlockSize(bits) |-> IPString(WithLow(b, BlockFirst(b, bits) + k - 1))]

BlockInner(b, bits) ==
    [k \in 1..(BlockSize(bits) - 2) |-> IPString(WithLow(b, BlockFirst(b, bits) + k))]

Bases == { <<192, 168, 1, 0>>, <<192, 168, 1, 77>>, <<10, 255, 255, 254>>,
           <<255, 255, 255, 250>>, <<10, 0, 255, 3>> }

Prefixes == (32 - MaxHostBits)..32

BlockFiles == {TextFile(<<CidrText(b, bits)>>) : b \in Bases, bits \in Prefixes}

\* lines of every kind, each with what it is to contribute to the list;
\* bad: a line with "/" that is no network prefix
LinePool ==
    { [text |-> IPString(AddrA), bad |-> FALSE, out |-> <<IPString(AddrA)>>],
      [text |-> <<" ", "\f">> \o CidrText(AddrB, 30) \o <<"U+000B", "\t", "U+00A0">>,
       bad |-> FALSE, out |-> BlockInner(AddrB, 30)],
      [text |-> CidrText(AddrA, 31), bad |-> FALSE, out |-> BlockAll(AddrA, 31)],
      [text |-> BadCidr, bad |-> TRUE, out |-> << >>],
      [text |-> CidrText(AddrA, 33), bad |-> TRUE, out |-> << >>],
      [text |-> <<"1", "0", ".", "0", ".", "0", "/", "2", "4">>, bad |-> TRUE,
       out |-> << >>],
      [text |-> << >>, bad |-> FALSE, out |-> <<<< >>>>],
      [text |-> <<"a", "b", "c">>, bad |-> FALSE, out |-> <<<<"a", "b", "c">>>>] }

\* IPv6 lines: blocks, a block of IPv4-mapped addresses (its addresses
\* have a 4-byte form and are written dotted), one that ends at the last
\* such address, a prefix with a zone, an address with two ellipses, and
\* an address without "/"
V6Pool ==
    { [text |-> <<":", ":", "1", "/", "1", "2", "8">>, bad |-> FALSE,
       out |-> <<<<":", ":", "1">>>>],
      [text |-> <<"2", "0", "0", "1", ":", "d", "b", "8", ":", ":", "/", "1", "2", "6">>,
       bad |-> FALSE,
       out |-> <<<<"2", "0", "0", "1", ":", "d", "b", "8", ":", ":", "1">>,
                 <<"2", "0", "0", "1", ":", "d", "b", "8", ":", ":", "2">>>>],
      [text |-> <<":", ":", "f", "f", "f", "f", ":", "1", "0", ".", "0", ".", "0", ".", "0", "/", "1", "2", "6">>,
       bad |-> FALSE,
       out |-> <<<<"1", "0", ".", "0", ".", "0", ".", "1">>,
                 <<"1", "0", ".", "0", ".", "0", ".", "2">>>>],
      [text |-> <<"2", "0", "0", "1", ":", "D", "B", "8", ":", ":", "f", "f", "f", "e", "/", "1", "2", "7">>,
       bad |-> FALSE,
       out |-> <<<<"2", "0", "0", "1", ":", "d", "b", "8", ":", ":", "f", "f", "f", "e">>,
                 <<"2", "0", "0", "1", ":", "d", "b", "8", ":", ":", "f", "f", "f", "f">>>>],
      [text |-> <<":", ":", "f", "f", "f", "f", ":", "2", "5", "5", ".", "2", "5", "5", ".", "2", "5", "5", ".", "2", "5", "4", "/", "1", "2", "7">>,
       bad |-> FALSE,
       out |-> <<<<"2", "5", "5", ".", "2", "5", "5", ".", "2", "5", "5", ".", "2", "5", "4">>,
                 <<"2", "5", "5", ".", "2", "5", "5", ".", "2", "5", "5", ".", "2", "5", "5">>>>],
      [text |-> <<"f", "e", "8", "0", ":", ":", "1", "%", "e", "t", "h", "0", "/", "6", "4">>,
       bad |-> TRUE, out |-> << >>],
      [text |-> <<"1", ":", ":", "2", ":", ":", "3", "/", "6", "4">>,
       bad |-> TRUE, out |-> << >>],
      [text |-> <<":", ":", "1">>, bad |-> FALSE, out |-> <<<<":", ":", "1">>>>] }

PoolEntry(text) == CHOOSE e \in LinePool \cup V6Pool : e.text = text

RECURSIVE SeqsUpTo(_, _)
SeqsUpTo(S, n) ==
    IF n = 0 THEN {<< >>}
    ELSE LET shorter == SeqsUpTo(S, n - 1)
         IN  shorter \cup {Append(q, e) : q \in shorter, e \in S}

MixedFiles == {TextFile(ls) : ls \in SeqsUpTo({e.text : e \in LinePool}, MaxLines)}
                 \cup {TextFile(ls) : ls \in SeqsUpTo({e.text : e \in V6Pool}, 2)}

ReadFiles == BlockFiles \cup MixedFiles
                \cup {Unreadable, Broken(<<IPString(AddrA), BadCidr>>)}

InitRead == \E f \in ReadFiles : Start(f, 1)

SpecRead == InitRead /\ [][NextRead]_vars

(***************************************************************************)
(* The loop of expandCIDR near the end of a block.  A block of 2^32        *)
(* addresses is not walked from its first address: the loop is taken up at *)
(* one of the block's last addresses.  Its condition and incrementIP read  *)
(* ip and ipnet only; loopIPs holds here what was appended since, the      *)
(* entries before it are left out.                                         *)
(***************************************************************************)
\* the loop is taken up at most this many addresses before 255.255.255.255
NearEnd == 5
\* and followed for at most this many iterations
MaxLoopSteps == 8

AllOnes == <<255, 255, 255, 255>>

\* "0.0.0.0/0", and blocks of shorter and longer prefixes that end at the
\* all-ones address
WrapBlocks == {CidrText(<<0, 0, 0, 0>>, 0)}
                 \cup {CidrText(AllOnes, bits) : bits \in {1, 8, 16, 24}}

\* readIPs has handed its first line, cidr, to expandCIDR, whose loop is at ip
LoopAt(cidr, ip) ==
    /\ file = TextFile(<<cidr>>)
    /\ maxThreads = 1
    /\ pcMain = "expand"
    /\ lineNo = 1
    /\ line = cidr
    /\ ips = << >>
    /\ warned = << >>
    /\ loopIP = ip
    /\ ipnet = ParseCIDR(cidr).ipnet
    /\ loopIPs = << >>
    /\ expandedIPs = << >>
    /\ resultChan = << >>
    /\ chanCap = 0
    /\ closed = FALSE
    /\ sem = 0
    /\ semCap = 0
    /\ wg = 0
    /\ count = 0
    /\ total = 0
    /\ next = 1
    /\ tpc = << >>
    /\ conn = << >>
    /\ perr = << >>
    /\ pdur = << >>
    /\ reg = << >>
    /\ said = << >>
    /\ calls = << >>
    /\ releases = << >>
    /\ dones = << >>
    /\ seen = << >>
    /\ progress = << >>
    /\ finalLines = 0
    /\ results = << >>
    /\ csv = [exists |-> FALSE, rows |-> << >>]
    /\ report = ""

InitLoop ==
    \E cidr \in WrapBlocks, k \in 0..NearEnd :
        /\ ~ParseCIDR(cidr).err
        /\ ContainsIP(ParseCIDR(cidr).ipnet, <<255, 255, 255, 255 - k>>)
        /\ LoopAt(cidr, <<255, 255, 255, 255 - k>>)

\* an iteration of the loop, for as long as the run is followed
ExpandStepFollowed ==
    /\ Len(loopIPs) < MaxLoopSteps
    /\ ExpandStep

SpecLoop == InitLoop /\ [][ExpandStepFollowed]_vars

(***************************************************************************)
(* Properties of the scheduler and the aggregator (under Spec).            *)
(***************************************************************************)
\* the goroutines that were started and have not yet received from sem
InFlight == {t \in Tasks : tpc[t] \in {"ping", "opened", "recv", "ret", "release"}}

\* the goroutines that have called wg.Done()
Signalled == {t \in Tasks : tpc[t] \in {"load", "store", "args61", "print61", "line62", "print63", "end"}}

OpenConns == {t \in Tasks : conn[t] = "open"}

\* the slots taken: those of the goroutines in flight, and the one main
\* holds between its send to sem and the go statement
SlotsHeld == Cardinality(InFlight) + (IF pcMain = "go" THEN 1 ELSE 0)

Readable == ~file.openErr /\ ~file.scanErr

\* main is past wg.Wait()
PastBarrier == \/ pcMain \in {"close", "check", "range", "create", "write"}
               \/ pcMain = "exit" /\ Readable

\* main is past the range loop over resultChan
Drained == \/ pcMain \in {"create", "write"}
           \/ pcMain = "exit" /\ report \in {"CreateFailed", "WriteFailed", "Written"}

\* the tasks whose probe returned Success (the goroutine may not have dealt
\* with it yet), and what each is to contribute
Succeeded == {t \in Tasks : said[t] = "ok" \/ (tpc[t] = "ret" /\ perr[t] = "")}

RowOf(t) == <<ips[t], pdur[t]>>

RowsIn(rs) == {<<rs[i].ip, rs[i].duration>> : i \in 1..Len(rs)}

TimesIn(rs, row) ==
    Cardinality({i \in 1..Len(rs) : <<rs[i].ip, rs[i].duration>> = row})

TimesSucceeded(row) == Cardinality({t \in Succeeded : RowOf(t) = row})

\* rs holds, as a multiset, exactly the rows of the successful tasks
SameAsSucceeded(rs) ==
    /\ Len(rs) = Cardinality(Succeeded)
    /\ \A row \in RowsIn(rs) \cup {RowOf(t) : t \in Succeeded} :
          TimesIn(rs, row) = TimesSucceeded(row)

\* C1: in every reachable state at most maxThreads tasks are admitted and
\* have not released their slot, so at most maxThreads transports are open,
\* and a task's transport is closed before it releases its slot.
C1_AtMostNInFlight ==
    /\ SlotsHeld <= maxThreads
    /\ sem <= maxThreads
    /\ Cardinality(OpenConns) <= maxThreads
    /\ \A t \in Tasks : conn[t] = "open" => tpc[t] \in {"opened", "recv"}
    /\ \A t \in Tasks : releases[t] > 0 => conn[t] # "open"

\* maxThreads transports are open while main waits to admit a further task
C1_Witness ==
    /\ Cardinality(OpenConns) = maxThreads
    /\ pcMain = "loop"
    /\ next <= Len(ips)
    /\ sem = semCap

\* C2: once main is past wg.Wait(), and so whenever it reads the result
\* buffer, every target of the list has had ping called exactly once, that
\* call has returned and its outcome has been dealt with, and the goroutine
\* has signalled the barrier.
C2_BarrierAfterAllProbes ==
    /\ PastBarrier =>
          /\ Len(tpc) = Len(ips)
          /\ \A t \in 1..Len(ips) :
                /\ calls[t] = 1
                /\ t \in Signalled
                /\ conn[t] # "open"
                /\ said[t] \in {"ok", "failed"}
    /\ (results # << >> \/ closed) => PastBarrier
    /\ \A t \in Tasks : calls[t] <= 1

\* main reads the buffer after a run with a success and a failure
C2_Witness ==
    /\ pcMain = "range"
    /\ \E t \in Tasks : said[t] = "ok"
    /\ \E t \in Tasks : said[t] = "failed"

\* C3: the buffer holds, when it is closed, exactly the rows of the tasks
\* whose probe succeeded, and so does the slice drained from it: one row a
\* successful task, none for a failed one, none lost.
C3_ResultsAreTheSuccesses ==
    /\ pcMain = "check" => SameAsSucceeded(resultChan)
    /\ (pcMain = "range" /\ resultChan = << >>) => SameAsSucceeded(results)
    /\ Drained => SameAsSucceeded(results)
    /\ Len(resultChan) <= chanCap

\* the same address was probed twice, both probes succeeded with the same
\* duration and a third target failed or there is none: two equal rows
C3_Witness ==
    /\ pcMain = "range"
    /\ resultChan = << >>
    /\ Len(results) = 2
    /\ results[1] = results[2]
    /\ ips[1] = ips[Len(ips)]

\* C4: what is handed to the writer is a permutation of the successes in
\* non-decreasing order of duration, and the rows written are those, in
\* that order, each the address and the formatted latency.
C4_SortedAscending ==
    /\ Drained =>
          /\ \A i, j \in 1..Len(results) :
                i < j => results[i].duration <= results[j].duration
          /\ SameAsSucceeded(results)
    /\ report = "Written" =>
          /\ Len(csv.rows) = Len(results) + 1
          /\ \A i \in 1..Len(results) :
                csv.rows[i + 1] = <<results[i].ip, FormatLatency(results[i].duration)>>

\* with one slot the first target's result arrives first; it is written
\* second, for its duration is the longer one
C4_Witness ==
    /\ report = "Written"
    /\ maxThreads = 1
    /\ Len(ips) = 2
    /\ ips[1] # ips[2]
    /\ pdur[1] > pdur[2]
    /\ csv.rows[2] = <<ips[2], <<"0", " ", "m", "s">>>>
    /\ csv.rows[3] = <<ips[1], <<"1", " ", "m", "s">>>>

\* C5: a run in which no probe succeeded (all failed, or there was no
\* target) ends with the empty-result report; the output file is not
\* created; and a file that is written holds a row besides the header.
C5_EmptyResultReported ==
    /\ (pcMain = "exit" /\ Readable /\ Succeeded = {}) =>
          /\ report = "NoValidIP"
          /\ ~csv.exists
          /\ csv.rows = << >>
    /\ (PastBarrier /\ Succeeded = {}) => pcMain \in {"close", "check", "exit"}
    /\ csv.exists => results # << >>
    /\ report = "Written" => Len(csv.rows) >= 2

\* every probe of a run with targets failed, and the run is over
C5_Witness ==
    /\ pcMain = "exit"
    /\ Len(ips) > 0
    /\ \A t \in Tasks : said[t] = "failed"
    /\ report = "NoValidIP"
    /\ ~csv.exists

\* C6, as claimed: every run ends in one of three conditions: written with
\* a non-empty ResultSet, the empty-result report with an empty one, or the
\* unreadable source with no task admitted.
C6_ThreeConditions ==
    pcMain = "exit" =>
        \/ report = "Written" /\ results # << >>
        \/ report = "NoValidIP" /\ results = << >>
        \/ report = "SourceUnreadable" /\ Tasks = {} /\ sem = 0

\* C6, amended: every run ends with exactly one of five reports, which tell
\* apart: the source unreadable (then no task was admitted or started), no
\* success, and, with a non-empty ResultSet, the file written, the file not
\* created, the write failed.
C6_FiveConditions ==
    /\ pcMain # "exit" => report = ""
    /\ pcMain = "exit" =>
          /\ report \in {"SourceUnreadable", "NoValidIP", "Written",
                         "CreateFailed", "WriteFailed"}
          /\ report = "SourceUnreadable" <=> ~Readable
          /\ report = "SourceUnreadable" =>
                Tasks = {} /\ sem = 0 /\ wg = 0 /\ ips = << >>
          /\ report = "NoValidIP" <=> (Readable /\ Succeeded = {})
          /\ report = "NoValidIP" => results = << >> /\ ~csv.exists
          /\ report \in {"Written", "CreateFailed", "WriteFailed"} =>
                results # << >>
          /\ report = "Written" => csv.exists /\ csv.rows = CsvRows(results)
          /\ report = "CreateFailed" => ~csv.exists
          /\ report = "WriteFailed" => csv.exists

\* the scanner failed after lines were read: the run is over, nothing was
\* scheduled
C6_Witness ==
    /\ pcMain = "exit"
    /\ report = "SourceUnreadable"
    /\ lineNo > 0
    /\ Tasks = {}

\* C7, as claimed: the report of a run without targets is not the report
\* of a run whose targets all failed; that is, the report a run without
\* targets ends with (C7_NoTargetsReport) is given only when there was no
\* target.
C7_SummariesDiffer ==
    (pcMain = "exit" /\ report = "NoValidIP") => Len(ips) = 0

\* a readable file gave no target, and the run ended with this report
C7_NoTargetsReport ==
    /\ pcMain = "exit"
    /\ Readable
    /\ Len(ips) = 0
    /\ report = "NoValidIP"

\* C8: a failed probe costs nothing but its own row: a goroutine that is over
\* has released its slot once and signalled the barrier once, whatever ping
\* returned; no slot and no barrier count is lost (the tokens in sem are the
\* slots held, the WaitGroup's counter counts the goroutines that have not
\* signalled), so that no other task is kept from being admitted or waited
\* for; and a failed probe sends no result.
C8_FailureIsLocal ==
    /\ \A t \in Tasks :
          /\ releases[t] <= 1
          /\ dones[t] <= 1
          /\ tpc[t] \in {"load", "store", "args61", "print61", "line62", "print63", "end"} =>
                releases[t] = 1 /\ dones[t] = 1
          /\ tpc[t] \in {"idle", "ping", "opened", "recv", "ret", "release"} =>
                releases[t] = 0 /\ dones[t] = 0
    /\ pcMain \notin {"readIPs", "scan", "expand", "make"} =>
          /\ sem = SlotsHeld
          /\ wg = Len(ips) - Cardinality(Signalled)
    /\ Len(resultChan) + Len(results) <= Cardinality(Succeeded)

\* with one slot: the first probe failed, the second was admitted after it,
\* succeeded, and both goroutines are over
C8_Witness ==
    /\ maxThreads = 1
    /\ Len(said) >= 2
    /\ said[1] = "failed"
    /\ said[2] = "ok"
    /\ tpc[1] = "end"
    /\ tpc[2] = "end"

(***************************************************************************)
(* Properties of the target expander (under SpecRead).                     *)
(***************************************************************************)
ExpandReturned == pcMain \in {"scan", "make"}

\* "192.168.1.0/30", "192.168.1.1", "192.168.1.2"
Example30 == <<"1", "9", "2", ".", "1", "6", "8", ".", "1", ".", "0", "/", "3", "0">>

Example30Hosts == << <<"1", "9", "2", ".", "1", "6", "8", ".", "1", ".", "1">>,
                     <<"1", "9", "2", ".", "1", "6", "8", ".", "1", ".", "2">> >>

\* C9: for a well-formed IPv4 block, whatever the host bits of its base, the
\* loop starts at the masked network address, and expandCIDR returns, in
\* increasing numeric order, the block's addresses without the first and
\* the last when the block has more than 2, and all of them otherwise;
\* 192.168.1.0/30 gives 192.168.1.1 and 192.168.1.2.  The same holds of
\* the IPv6 blocks of V6Pool (/126, /127, /128).
C9_ExpansionExact ==
    /\ \A b \in Bases \cup {AddrA, AddrB}, bits \in Prefixes :
          line = CidrText(b, bits) =>
             /\ (pcMain = "expand" /\ loopIPs = << >>) =>
                   loopIP = WithLow(b, BlockFirst(b, bits))
             /\ ExpandReturned =>
                   expandedIPs = IF bits <= 30 THEN BlockInner(b, bits)
                                 ELSE BlockAll(b, bits)
    /\ (line = Example30 /\ ExpandReturned) => expandedIPs = Example30Hosts
    /\ \A e \in V6Pool :
          (line = e.text /\ ContainsChar(line, "/") /\ ~e.bad /\ ExpandReturned)
              => expandedIPs = e.out

\* 192.168.1.0/30 has been expanded
C9_Witness ==
    /\ line = Example30
    /\ ExpandReturned
    /\ expandedIPs = Example30Hosts
    /\ ips = Example30Hosts

\* what the lines are to give: each line's contribution, in the order of
\* the lines; and the lines to be reported
RECURSIVE Contributions(_)
Contributions(ls) ==
    IF ls = << >> THEN << >>
    ELSE PoolEntry(Head(ls)).out \o Contributions(Tail(ls))

IsBadLine(text) == PoolEntry(text).bad

\* C10: a line with "/" that is no network prefix is reported and adds no
\* target, and the reading goes on: after any number of lines the list is
\* the concatenation, in line order, of what the other lines contribute.
C10_BadCidrSkipped ==
    (file \in MixedFiles /\ pcMain \in {"scan", "make"}) =>
        /\ ips = Contributions(SubSeq(file.lines, 1, lineNo))
        /\ warned = SelectSeq(SubSeq(file.lines, 1, lineNo), IsBadLine)
        /\ pcMain = "make" => lineNo = Len(file.lines)

\* "10.0.0.0/abc" was reported, and the block after it was expanded
C10_Witness ==
    /\ pcMain = "make"
    /\ file.lines = <<BadCidr, CidrText(AddrA, 31), IPString(AddrA)>>
    /\ warned = <<BadCidr>>
    /\ Len(ips) = 3

\* whether a target of the list is the text of an IP address
IsAddrText(s) == ~ParseAddr(s).err

\* the lines among the first k that have no "/" and are no IP address
Unparsable(k) ==
    {i \in 1..k : LET l == TrimSpace(file.lines[i])
                  IN  ~ContainsChar(l, "/") /\ ~IsAddrText(l)}

\* C11, as claimed: a line that is neither an IP address nor a CIDR block
\* (a blank line, text without "/") is skipped with a warning: it adds no
\* entry to the target list, so that every entry of the list is the text of
\* an address, and it is among the lines reported.
C11_UnparsableSkipped ==
    (file \in MixedFiles /\ pcMain \in {"scan", "make"}) =>
        /\ \A i \in 1..Len(ips) : IsAddrText(ips[i])
        /\ \A i \in Unparsable(lineNo) :
              \E j \in 1..Len(warned) : warned[j] = TrimSpace(file.lines[i])

(***************************************************************************)
(* Properties of the loop of expandCIDR (under SpecLoop).                  *)
(***************************************************************************)
\* a < b as numbers, for addresses of the same length
IpLess(a, b) ==
    \E i \in 1..Len(a) : a[i] < b[i] /\ \A j \in 1..(i - 1) : a[j] = b[j]

AddrOf(text) == ParseAddr(text).ip

\* C12, as claimed: for every well-formed block, prefix length 0 and blocks
\* ending at the all-ones address among them, the loop appends the block's
\* addresses in increasing numeric order, each once: the increment never
\* wraps round into an address that is still inside the block.
C12_NoWrapInsideBlock ==
    /\ \A i, j \in 1..Len(loopIPs) :
          i < j => IpLess(AddrOf(loopIPs[i]), AddrOf(loopIPs[j]))
    /\ (pcMain = "expand" /\ loopIPs # << >> /\ ContainsIP(ipnet, loopIP)) =>
          IpLess(AddrOf(loopIPs[Len(loopIPs)]), loopIP)

(***************************************************************************)
(* Termination (under SpecFair).                                           *)
(***************************************************************************)
\* a goroutine holds a success it has not yet sent
HoldsSuccess(t) == tpc[t] = "ret" /\ perr[t] = ""

\* main waits at the admission gate: every slot is taken
AtGate == pcMain = "loop" /\ next <= Len(ips) /\ sem = semCap

\* C13: under fair scheduling a run that has its target list ends with
\* main's return: main does not wait for ever at the admission gate, a
\* goroutine that holds a success can always send it (the buffer has room
\* for it and is not closed), and main gets past wg.Wait().
C13_AlwaysTerminates ==
    /\ ((pcMain = "make") ~> (pcMain = "exit"))
    /\ [](\A t \in Tasks :
             HoldsSuccess(t) => (Len(resultChan) < chanCap /\ ~closed))
    /\ (AtGate ~> (pcMain = "go"))
    /\ ((pcMain = "make") ~> (pcMain = "close"))

\* a run of more targets than slots is over, and every target succeeded:
\* main waited at the gate, and the buffer was filled to its capacity
C13_Witness ==
    /\ pcMain = "exit"
    /\ report = "Written"
    /\ Len(ips) > maxThreads
    /\ Len(results) = Len(ips)

(***************************************************************************)
(* Properties of the prober (under Spec).                                  *)
(***************************************************************************)
\* ping has returned to the goroutine of t, which has not yet looked at
\* what it returned
Returned(t) == tpc[t] = "ret"

\* C14: a datagram of another peer gives no outcome and leaves the read
\* deadline as it was set, once, after the send: however many such
\* datagrams a ping has read, it is still in its receive loop with nothing
\* returned; and a ping that returns the receive error has read no
\* datagram of its destination, fails once, and adds no row.
C14_StraysChangeNothing ==
    /\ [](\A t \in Tasks :
             /\ seen[t].deadlines <= 1
             /\ seen[t].strays > 0 =>
                   (tpc[t] \in {"recv", "ret"} /\ seen[t].deadlines = 1)
             /\ tpc[t] = "recv" =>
                   /\ seen[t].deadlines = 1
                   /\ seen[t].first = "none"
                   /\ perr[t] = "" /\ pdur[t] = 0 /\ said[t] = ""
                   /\ conn[t] = "open"
             /\ (Returned(t) /\ perr[t] = "recv") =>
                   /\ seen[t].first = "none"
                   /\ seen[t].deadlines = 1
                   /\ calls[t] = 1
                   /\ pdur[t] = 0)
    /\ [][\A t \in Tasks :
             /\ seen'[t].strays > seen[t].strays =>
                   /\ tpc'[t] = "recv"
                   /\ seen'[t].deadlines = seen[t].deadlines
                   /\ perr'[t] = perr[t] /\ pdur'[t] = pdur[t]
                   /\ conn'[t] = conn[t] /\ said'[t] = said[t]
                   /\ resultChan' = resultChan
             /\ (Returned(t) /\ perr[t] = "recv" /\ ~Returned(t)') =>
                   /\ said'[t] = "failed"
                   /\ resultChan' = resultChan]_vars

\* a ping has read MaxStray datagrams of other peers and then met its
\* deadline
C14_Witness ==
    \E t \in Tasks :
        /\ Returned(t)
        /\ perr[t] = "recv"
        /\ seen[t].strays = MaxStray

\* C15: ping returns a success exactly when the first datagram of its
\* destination that it read was an echo reply; when that datagram was a
\* message of another type it returns the unexpected-type error, and when
\* ParseMessage rejected it the parse error; it never reads on after a
\* datagram of its destination, whatever may arrive later.
C15_FirstFromDstDecides ==
    \A t \in Tasks :
        /\ tpc[t] = "recv" => seen[t].first = "none"
        /\ Returned(t) =>
              /\ seen[t].first = "reply" <=> (perr[t] = "" /\ conn[t] # "none")
              /\ seen[t].first = "other" <=> perr[t] = "type"
              /\ seen[t].first = "garbage" <=> perr[t] = "parse"
              /\ perr[t] = "" => pdur[t] \in Durations
              /\ perr[t] # "" => pdur[t] = 0

\* a ping has passed over a datagram of another peer and has then returned
\* on a message of another type from its destination, while an echo reply
\* to its request may still arrive
C15_Witness ==
    \E t \in Tasks :
        /\ Returned(t)
        /\ perr[t] = "type"
        /\ seen[t].first = "other"
        /\ seen[t].strays > 0
        /\ [peer |-> ips[t], kind |-> "reply", for |-> t] \in Datagrams

\* the goroutine of t is past its call of ping
PingOver(t) == tpc[t] \in {"ret", "release", "done", "load", "store", "args61", "print61",
                           "line62", "print63", "end"}

\* the errors ping returns after it has opened its transport
LateErrors == {"marshal", "resolve", "send", "recv", "parse", "type"}

\* C16: a call of ping opens at most one transport, once; the transport
\* changes only in steps of that call; when the call returns its transport
\* is closed, on each of its returns after the opening (marshal, resolve,
\* send, receive, parse, unexpected type, success), and there is none when
\* the opening failed; a closed transport stays closed; so no transport is
\* open once main is past wg.Wait().
C16_TransportScoped ==
    /\ [](\A t \in Tasks :
             /\ conn[t] \in {"none", "open", "closed"}
             /\ conn[t] # "none" => calls[t] = 1
             /\ conn[t] = "open" <=> tpc[t] \in {"opened", "recv"}
             /\ PingOver(t) => conn[t] # "open"
             /\ Returned(t) =>
                   /\ perr[t] \in LateErrors \cup {""} => conn[t] = "closed"
                   /\ perr[t] = "listen" <=> conn[t] = "none")
    /\ [](PastBarrier => OpenConns = {})
    /\ [][\A t \in Tasks :
             /\ conn[t] = "closed" => conn'[t] = "closed"
             /\ (conn'[t] = "open" /\ conn[t] # "open") =>
                   conn[t] = "none" /\ calls[t] = 0 /\ calls'[t] = 1
             /\ conn'[t] # conn[t] =>
                   /\ tpc[t] \in {"ping", "opened", "recv"}
                   /\ tpc'[t] # tpc[t]
                   /\ \A u \in Tasks \ {t} : tpc'[u] = tpc[u] /\ conn'[u] = conn[u]]_vars

\* two pings have returned, one on a failed send and one on a success; the
\* transport of each is closed
C16_Witness ==
    /\ Len(tpc) >= 2
    /\ Returned(1) /\ perr[1] = "send" /\ conn[1] = "closed"
    /\ Returned(2) /\ perr[2] = "" /\ pdur[2] > 0 /\ conn[2] = "closed"

\* C17, as claimed: no increment of the progress counter is lost: the
\* values printed run 1, 2, ..., and when every goroutine is over the
\* counter is total and the final line was printed once.
C17_CounterExact ==
    /\ \A i \in 1..Len(progress) : progress[i] = i
    /\ (Tasks # {} /\ \A t \in Tasks : tpc[t] = "end") =>
          /\ count = total
          /\ Len(progress) = total
          /\ finalLines = 1

\* C18, as claimed: the order of the rows is fixed by the successes alone:
\* rows of equal duration stand in the order of their addresses, whatever
\* the order in which the tasks completed.
C18_TiesByAddress ==
    Drained =>
        \A i, j \in 1..Len(results) :
            (i < j /\ results[i].duration = results[j].duration) =>
                ~IpLess(AddrOf(results[j].ip), AddrOf(results[i].ip))

\* C19, as claimed: a ping returns a success only on the echo reply that
\* answers its own request, also when another ping to the same address is
\* in flight.
C19_OwnReplyOnly ==
    \A t \in Tasks : (Returned(t) /\ perr[t] = "") => seen[t].cause = t

=============================================================================
